---- MODULE Spec2Model ----
(***************************************************************************)
(* The synchronization engine of image-processor.py: one run of main()     *)
(* after another over a directory of image files, a persisted cache, a     *)
(* persisted failure ledger, a bucket of uploaded objects and the rows of  *)
(* the remote sheet.  A run is cut into steps at the points where it       *)
(* touches persisted or remote state, so that a crash can fall between     *)
(* any two of them.                                                        *)
(***************************************************************************)
EXTENDS Integers, Sequences, FiniteSets, TLC

(***************************************************************************)
(* Bounds of the model.                                                    *)
(***************************************************************************)
MaxRuns == 3
MaxFaults == 1
MaxEdits == 1
MaxPlanned == 56
MaxTokens == 5
MaxList == 4

(***************************************************************************)
(* Program constants.                                                      *)
(***************************************************************************)
retries == 3
cache_limit == 1000
save_every == 50
cell_batch_size == 500
row_batch_size == 25
thumb_batch_size == 10
new_batch_size == 1000

(***************************************************************************)
(* The image directory.  A file name is given with the tokens that         *)
(* split('_') yields on its stem, each token a sequence of characters.     *)
(***************************************************************************)
Names == {"a_02.jpg", "a_01.jpg", "b.png"}
Hashes == {"h1", "h2", "h3"}
Digits == {"0", "1", "2", "3", "4", "5", "6", "7", "8", "9"}

Split(name) ==
    CASE name = "a_01.jpg" -> << <<"a">>, <<"0", "1">> >>
      [] name = "a_02.jpg" -> << <<"a">>, <<"0", "2">> >>
      [] name = "b.png"    -> << <<"b">> >>
      [] name = "a.jpg"    -> << <<"a">> >>
      [] name = "b_01.png" -> << <<"b">>, <<"0", "1">> >>

Ext(name) ==
    CASE name = "a_01.jpg" -> "jpg"
      [] name = "a_02.jpg" -> "jpg"
      [] name = "b.png"    -> "png"
      [] name = "a.jpg"    -> "jpg"
      [] name = "b_01.png" -> "png"

\* glob.glob is called once per extension, in this order
ExtRank(e) == CASE e = "jpg" -> 1 [] e = "jpeg" -> 2 [] e = "png" -> 3 [] e = "gif" -> 4

DigitVal(c) ==
    CASE c = "0" -> 0 [] c = "1" -> 1 [] c = "2" -> 2 [] c = "3" -> 3 [] c = "4" -> 4
      [] c = "5" -> 5 [] c = "6" -> 6 [] c = "7" -> 7 [] c = "8" -> 8 [] c = "9" -> 9

\* r'^\d{2}$'
number_pattern(tok) == Len(tok) = 2 /\ tok[1] \in Digits /\ tok[2] \in Digits

HasSequence(name) ==
    LET parts == Split(name) IN Len(parts) > 0 /\ number_pattern(parts[Len(parts)])

\* metadata['sequence'] as the key of the sort: int(sequence or 0)
SequenceKey(name) ==
    LET parts == Split(name) IN
    IF HasSequence(name)
    THEN 10 * DigitVal(parts[Len(parts)][1]) + DigitVal(parts[Len(parts)][2])
    ELSE 0

\* metadata['base_name']: the tokens left once the sequence token is removed
BaseName(name) ==
    LET parts == Split(name) IN
    IF HasSequence(name) THEN SubSeq(parts, 1, Len(parts) - 1) ELSE parts

(***************************************************************************)
(* Dictionaries are functions on the set of their keys.                    *)
(***************************************************************************)
EmptyDict == [k \in {} |-> ""]
DictSet(d, k, v) == [x \in DOMAIN d \cup {k} |-> IF x = k THEN v ELSE d[x]]
DictDel(d, k) == [x \in DOMAIN d \ {k} |-> d[x]]

Min(a, b) == IF a < b THEN a ELSE b
Range(s) == {s[i] : i \in DOMAIN s}

\* a value of cache['processed_files']: 'pending' or the time of the commit
PendingEntry == [pending |-> TRUE, ts |-> 0]
DoneEntry(t) == [pending |-> FALSE, ts |-> t]

EmptyCache == [processed_files |-> EmptyDict, gcs_urls |-> EmptyDict]

VARIABLES
    \* the environment
    disk,             \* file name -> content hash
    flat,             \* TRUE: the images lie in the working directory itself
    remote,           \* the data rows of the sheet, row i of it is sheet row i + 1
    bucket,           \* names of the blobs in object storage
    cacheFile,        \* the cache file
    ledgerFile,       \* the failed-files file
    \* the running process
    pc,
    cache,
    failed_files,
    file_map,
    new_to_empty_cells,
    organized_files,
    idx,
    attempt,
    rows_to_add,
    cells_to_update,
    processed_files,
    duplicate_count,
    rows_count,
    wi,
    \* what the run did so far, kept for the statement of the properties
    outcomes,         \* outcomes[i]: how process_files left organized_files[i]
    scan_unreadable,  \* the names whose digest the dedup pass could not compute
    loaded_cache,     \* the cache as load_cache returned it
    append_errors,    \* the places in rows_to_add of the rows whose append_row raised
    exit,             \* how the last run ended: returned, through the handler, killed
    \* a single call of a function of the program, for the properties of its result
    call,
    result,
    \* bookkeeping
    runs,
    faults,
    edits

directory == <<disk, flat>>
env == <<directory, remote, bucket, cacheFile, ledgerFile>>
snapshot == <<file_map, new_to_empty_cells>>
scanned == <<organized_files, duplicate_count, scan_unreadable>>
plan == <<rows_to_add, cells_to_update>>
mem == <<cache, failed_files, snapshot, scanned, idx, attempt, plan, processed_files,
         rows_count, wi, outcomes, loaded_cache, append_errors>>
harness == <<call, result>>
vars == <<env, pc, mem, exit, runs, faults, edits, harness>>

(***************************************************************************)
(* Paths.  glob yields paths under LOCAL_IMAGE_DIR; the failure ledger     *)
(* holds bare file names, which open() resolves against the working        *)
(* directory.                                                              *)
(***************************************************************************)
None == "none"
NoCall == [fn |-> None]
GlobPath(name) == [rel |-> FALSE, name |-> name]
LedgerPath(name) == [rel |-> TRUE, name |-> name]

\* get_file_hash: the digest of the file, None when it cannot be read.
\* unreadable: the names whose file cannot be read at this call.
get_file_hash(path, unreadable) ==
    IF (path.rel /\ ~flat) \/ path.name \in unreadable THEN None ELSE disk[path.name]

\* the orders in which the four glob calls can list the directory
GlobOrders ==
    {s \in [1..Cardinality(Names) -> Names] :
        /\ \A i, j \in DOMAIN s : i # j => s[i] # s[j]
        /\ \A i, j \in DOMAIN s : i < j => ExtRank(Ext(s[i])) <= ExtRank(Ext(s[j]))}

(***************************************************************************)
(* The sheet.  A row is the tuple of its ten cells.                        *)
(***************************************************************************)
ColYear == 1
ColClient == 2
ColTitle == 3
ColSubtitle == 4
ColDetail == 5
ColTags == 6
ColPreviewURL == 7
ColThumbnail == 8
ColFileID == 9
ColStatus == 10
NCols == 10

EmptyRow == [c \in 1..NCols |-> ""]
Formula == "=IMAGE"
Manual == "manual"

Cell(row, col, value) == [row |-> row, col |-> col, value |-> value]

\* worksheet.update_cells: every cell of the batch is written, a later cell of the
\* batch over an earlier one of the same place; a cell below the last data row
\* makes the rows in between exist
update_cells(sheet, cells) ==
    LET rows == {Len(sheet)} \cup {cells[k].row - 1 : k \in DOMAIN cells}
        last == CHOOSE n \in rows : \A m \in rows : m <= n
        value(i, col) ==
            LET ks == {k \in DOMAIN cells : cells[k].row = i + 1 /\ cells[k].col = col}
            IN IF ks # {} THEN cells[CHOOSE k \in ks : \A j \in ks : j <= k].value
               ELSE IF i <= Len(sheet) THEN sheet[i][col] ELSE ""
    IN [i \in 1..last |-> [col \in 1..NCols |-> value(i, col)]]

\* get_existing_data, the loop over the data rows from row i on: file_map, where
\* a later row of a File ID replaces an earlier one
BuildFileMap(sheet, i, map) ==
    LET rows == {k \in i..Len(sheet) : sheet[k][ColFileID] # ""}
        ids == {sheet[k][ColFileID] : k \in rows}
        last(file_id) ==
            CHOOSE k \in rows :
                /\ sheet[k][ColFileID] = file_id
                /\ \A j \in rows : sheet[j][ColFileID] = file_id => j <= k
    IN [file_id \in DOMAIN map \cup ids |->
           IF file_id \in ids
           THEN [row_num |-> last(file_id) + 1, Status |-> sheet[last(file_id)][ColStatus]]
           ELSE map[file_id]]

\* get_existing_data, the loop over the data rows: new_to_empty_cells
RECURSIVE BuildNewCells(_, _)
BuildNewCells(sheet, i) ==
    IF i > Len(sheet) THEN <<>>
    ELSE (IF sheet[i][ColStatus] = "New" THEN <<Cell(i + 1, ColStatus, "")>> ELSE <<>>)
         \o BuildNewCells(sheet, i + 1)

(***************************************************************************)
(* group_files_by_sequence                                                 *)
(***************************************************************************)
FileInfo(path) == [path |-> path, name |-> path.name]

SortBySequence_Unsorted(files) == files

\* list.sort(key=...) is stable: insertion behind the last item that is not greater
RECURSIVE SortBySequence(_)
SortBySequence(files) ==
    IF files = <<>> THEN <<>>
    ELSE LET rest == SortBySequence(SubSeq(files, 1, Len(files) - 1))
             x == files[Len(files)]
             keep == {i \in 1..Len(rest) : SequenceKey(rest[i].name) <= SequenceKey(x.name)}
             k == IF keep = {} THEN 0 ELSE CHOOSE i \in keep : \A j \in keep : j <= i
         IN SubSeq(rest, 1, k) \o <<x>> \o SubSeq(rest, k + 1, Len(rest))

\* the keys of groups, in the order in which the dict received them
RECURSIVE GroupKeys(_)
GroupKeys(files) ==
    IF files = <<>> THEN <<>>
    ELSE LET before == GroupKeys(SubSeq(files, 1, Len(files) - 1))
             b == BaseName(files[Len(files)].name)
         IN IF b \in Range(before) THEN before ELSE Append(before, b)

RECURSIVE Flatten(_)
Flatten(groups) == IF groups = <<>> THEN <<>> ELSE Head(groups) \o Flatten(Tail(groups))

group_files_by_sequence(image_files) ==
    LET infos == [i \in 1..Len(image_files) |-> FileInfo(image_files[i])]
        keys == GroupKeys(infos)
        group(b) == SelectSeq(infos, LAMBDA f : BaseName(f.name) = b)
    IN Flatten([k \in 1..Len(keys) |-> SortBySequence(group(keys[k]))])

(***************************************************************************)
(* main, the dedup pass over failed_files + image_files                    *)
(***************************************************************************)
IsProcessed_IgnoresPending(c, h) == h \in DOMAIN c.processed_files

\* file_hash in cache['processed_files'] and cache['processed_files'][file_hash] != 'pending'
IsProcessed(c, h) ==
    h \in DOMAIN c.processed_files /\ ~c.processed_files[h].pending

RECURSIVE DedupPass_CountsProcessed(_, _, _, _)
DedupPass_CountsProcessed(paths, c, unreadable, acc) ==
    IF paths = <<>> THEN acc
    ELSE LET file_path == Head(paths)
             file_hash == get_file_hash(file_path, unreadable)
             next ==
                IF file_hash = None THEN acc
                ELSE IF IsProcessed(c, file_hash) \/ file_hash \in DOMAIN acc.file_hashes
                     THEN [acc EXCEPT !.duplicate_count = @ + 1]
                ELSE [acc EXCEPT !.file_hashes = DictSet(@, file_hash, file_path.name),
                                 !.unique_files = Append(@, file_path)]
         IN DedupPass_CountsProcessed(Tail(paths), c, unreadable, next)

\* acc: [unique_files, file_hashes, duplicate_count]
RECURSIVE DedupPass(_, _, _, _)
DedupPass(paths, c, unreadable, acc) ==
    IF paths = <<>> THEN acc
    ELSE LET file_path == Head(paths)
             file_hash == get_file_hash(file_path, unreadable)
             next ==
                IF file_hash = None THEN acc
                ELSE IF IsProcessed(c, file_hash) THEN acc
                ELSE IF file_hash \in DOMAIN acc.file_hashes
                     THEN [acc EXCEPT !.duplicate_count = @ + 1]
                ELSE [acc EXCEPT !.file_hashes = DictSet(@, file_hash, file_path.name),
                                 !.unique_files = Append(@, file_path)]
         IN DedupPass(Tail(paths), c, unreadable, next)

(***************************************************************************)
(* process_files, the plan items of one file                               *)
(***************************************************************************)
\* the cells of an update: all columns but the thumbnail, Status cleared; a value
\* derived from the file name stands as the file name in its column
cell_updates(row_num, file_name, gcs_url) ==
    << Cell(row_num, ColYear, file_name), Cell(row_num, ColClient, file_name),
       Cell(row_num, ColTitle, file_name), Cell(row_num, ColSubtitle, file_name),
       Cell(row_num, ColDetail, file_name), Cell(row_num, ColTags, file_name),
       Cell(row_num, ColPreviewURL, gcs_url), Cell(row_num, ColFileID, file_name),
       Cell(row_num, ColStatus, "") >>

\* the row of an insert
row_data(file_name, gcs_url) ==
    << file_name, file_name, file_name, file_name, file_name, file_name,
       gcs_url, "", file_name, "" >>

(***************************************************************************)
(* Initial state: no cache file and no ledger file yet; the sheet is empty *)
(* or already holds a row per image, with its blob.                        *)
(***************************************************************************)
\* content of the directory, up to the naming of the digests
Disks ==
    {d \in [Names -> Hashes] :
        /\ d["a_01.jpg"] = "h1"
        /\ d["a_02.jpg"] \in {"h1", "h2"}
        /\ d["b.png"] = "h3" => d["a_02.jpg"] = "h2"}

AutoRow(name, status) ==
    [c \in 1..NCols |-> IF c = ColThumbnail THEN Formula
                        ELSE IF c = ColStatus THEN status ELSE name]

\* a row per image, the last one still flagged New
FullSheet == << AutoRow("a_01.jpg", ""), AutoRow("a_02.jpg", ""), AutoRow("b.png", "New") >>

Init ==
    /\ disk \in Disks
    /\ flat \in BOOLEAN
    /\ remote \in {<<>>, FullSheet}
    /\ bucket = {remote[i][ColFileID] : i \in DOMAIN remote}
    /\ cacheFile = EmptyCache
    /\ ledgerFile = <<>>
    /\ pc = "idle"
    /\ cache = EmptyCache
    /\ failed_files = <<>>
    /\ file_map = EmptyDict
    /\ new_to_empty_cells = <<>>
    /\ organized_files = <<>>
    /\ duplicate_count = 0
    /\ scan_unreadable = {}
    /\ idx = 0
    /\ attempt = 0
    /\ rows_to_add = <<>>
    /\ cells_to_update = <<>>
    /\ processed_files = {}
    /\ rows_count = 0
    /\ wi = 0
    /\ outcomes = <<>>
    /\ loaded_cache = EmptyCache
    /\ append_errors = {}
    /\ exit = None
    /\ call = NoCall
    /\ result = None
    /\ runs = 0
    /\ faults = 0
    /\ edits = 0

\* the process is gone: nothing of its memory is left
ProcessEnds ==
    /\ pc' = "idle"
    /\ cache' = EmptyCache
    /\ failed_files' = <<>>
    /\ file_map' = EmptyDict
    /\ new_to_empty_cells' = <<>>
    /\ organized_files' = <<>>
    /\ duplicate_count' = 0
    /\ scan_unreadable' = {}
    /\ idx' = 0
    /\ attempt' = 0
    /\ rows_to_add' = <<>>
    /\ cells_to_update' = <<>>
    /\ processed_files' = {}
    /\ rows_count' = 0
    /\ wi' = 0
    /\ outcomes' = <<>>
    /\ loaded_cache' = EmptyCache
    /\ append_errors' = {}

save_cache_Lost(c) == UNCHANGED cacheFile

\* save_cache(cache); the write is taken to succeed
save_cache(c) == cacheFile' = c

\* a call fails: one more fault of the behaviour so far
Fault == faults < MaxFaults /\ faults' = faults + 1

(***************************************************************************)
(* main, up to process_files                                               *)
(***************************************************************************)
\* load_cache, load_failed_files
StartRun ==
    /\ pc = "idle"
    /\ runs < MaxRuns
    /\ runs' = runs + 1
    /\ cache' = cacheFile
    /\ failed_files' = ledgerFile
    /\ loaded_cache' = cacheFile
    /\ pc' = "snapshot"
    /\ exit' = None
    /\ UNCHANGED <<harness, env, snapshot, scanned, idx, attempt, plan, processed_files,
                   rows_count, wi, outcomes, append_errors, faults, edits>>

\* authenticate_google_apis, open_by_key or the creation of the worksheet raises:
\* the handler of main logs the error and the run ends
SetupFails ==
    /\ pc = "snapshot"
    /\ Fault
    /\ ProcessEnds
    /\ exit' = "handler"
    /\ UNCHANGED <<harness, env, runs, edits>>

\* get_existing_data returns the rows read
SnapshotRead ==
    /\ pc = "snapshot"
    /\ file_map' = BuildFileMap(remote, 1, EmptyDict)
    /\ new_to_empty_cells' = BuildNewCells(remote, 1)
    /\ pc' = IF new_to_empty_cells' # <<>> THEN "reset_new" ELSE "scan"
    /\ UNCHANGED <<exit, harness, env, cache, failed_files, scanned, idx, attempt, plan, processed_files,
                   rows_count, wi, outcomes, runs, faults, edits,
                   loaded_cache, append_errors>>

\* get_existing_data catches an error of the API and returns {}, []
SnapshotFails ==
    /\ pc = "snapshot"
    /\ Fault
    /\ file_map' = EmptyDict
    /\ new_to_empty_cells' = <<>>
    /\ pc' = "scan"
    /\ UNCHANGED <<exit, harness, env, cache, failed_files, scanned, idx, attempt, plan, processed_files,
                   rows_count, wi, outcomes, runs, edits,
                   loaded_cache, append_errors>>

\* main, one batch of the New reset; ok: safe_update_cells returned True
ResetNewBatch(ok) ==
    /\ pc = "reset_new"
    /\ LET batch == SubSeq(new_to_empty_cells, wi + 1,
                           Min(wi + new_batch_size, Len(new_to_empty_cells)))
       IN IF ok THEN remote' = update_cells(remote, batch) /\ UNCHANGED faults
          ELSE Fault /\ UNCHANGED remote
    /\ IF wi + new_batch_size < Len(new_to_empty_cells)
       THEN wi' = wi + new_batch_size /\ UNCHANGED pc
       ELSE wi' = 0 /\ pc' = "scan"
    /\ UNCHANGED <<exit, harness, directory, bucket, cacheFile, ledgerFile, cache, failed_files, snapshot,
                   scanned, idx, attempt, plan, processed_files, rows_count, outcomes,
                   runs, edits,
                   loaded_cache, append_errors>>

\* main: glob, the dedup pass, group_files_by_sequence
Scan(order, unreadable) ==
    /\ pc = "scan"
    /\ faults + Cardinality(unreadable) <= MaxFaults
    /\ faults' = faults + Cardinality(unreadable)
    /\ LET image_files == [i \in 1..Len(order) |-> GlobPath(order[i])]
           all_image_files == [i \in 1..Len(failed_files) |-> LedgerPath(failed_files[i])]
                              \o image_files
           acc == DedupPass(all_image_files, cache, unreadable,
                            [unique_files |-> <<>>, file_hashes |-> EmptyDict,
                             duplicate_count |-> 0])
       IN /\ organized_files' = group_files_by_sequence(acc.unique_files)
          /\ duplicate_count' = acc.duplicate_count
    /\ scan_unreadable' = unreadable
    /\ idx' = 1
    /\ pc' = "process"
    /\ UNCHANGED <<exit, harness, env, cache, failed_files, snapshot, attempt, plan, processed_files,
                   rows_count, wi, outcomes, runs, edits,
                   loaded_cache, append_errors>>

(***************************************************************************)
(* process_files, one file of organized_files at a time, and upload_to_gcs *)
(***************************************************************************)
Current == organized_files[idx]

\* the digest that process_files and, right after it, upload_to_gcs compute
CurrentHash == disk[Current.name]

InFileMap(file_name) == file_name \in DOMAIN file_map

IsEdited_CaseSlip(file_name) ==
    InFileMap(file_name) /\ file_map[file_name].Status = "edited"

\* status == 'Edited'
IsEdited(file_name) == InFileMap(file_name) /\ file_map[file_name].Status = "Edited"

EmitPlan_InsertAlways(file_name, gcs_url) ==
    /\ rows_to_add' = Append(rows_to_add, row_data(file_name, gcs_url))
    /\ UNCHANGED cells_to_update

\* the update or the insert that the file adds to the plan
EmitPlan(file_name, gcs_url) ==
    IF InFileMap(file_name)
    THEN /\ cells_to_update' =
               cells_to_update \o cell_updates(file_map[file_name].row_num, file_name, gcs_url)
         /\ UNCHANGED rows_to_add
    ELSE /\ rows_to_add' = Append(rows_to_add, row_data(file_name, gcs_url))
         /\ UNCHANGED cells_to_update

\* the loop goes on with the next file
Continue(outcome) ==
    /\ idx' = idx + 1
    /\ pc' = "process"
    /\ attempt' = 0
    /\ outcomes' = Append(outcomes, outcome)

RecordFailure_Break(file_name, outcome) ==
    /\ failed_files' = Append(failed_files, file_name)
    /\ idx' = Len(organized_files) + 1
    /\ pc' = "process"
    /\ attempt' = 0
    /\ outcomes' = Append(outcomes, outcome)

\* failed_files.append(file_name); continue
RecordFailure(file_name, outcome) ==
    /\ failed_files' = Append(failed_files, file_name)
    /\ Continue(outcome)

\* get_file_hash returns None
HashFails ==
    /\ pc = "process" /\ idx <= Len(organized_files)
    /\ Fault
    /\ RecordFailure(Current.name, "hash_failed")
    /\ UNCHANGED <<exit, harness, env, cache, snapshot, scanned, plan, processed_files, rows_count, wi,
                   runs, edits,
                   loaded_cache, append_errors>>

\* the row of the file is Edited: processed_files.add(file_hash); continue
SkipEdited ==
    /\ pc = "process" /\ idx <= Len(organized_files)
    /\ IsEdited(Current.name)
    /\ processed_files' = processed_files \cup {CurrentHash}
    /\ Continue("edited")
    /\ UNCHANGED <<exit, harness, env, cache, failed_files, snapshot, scanned, plan, rows_count, wi,
                   runs, faults, edits,
                   loaded_cache, append_errors>>

\* upload_to_gcs, the digest has a cached URL: the blob, if there is one, is made
\* public again and its URL replaces the cached one
CacheHit ==
    /\ pc = "process" /\ idx <= Len(organized_files)
    /\ ~IsEdited(Current.name)
    /\ CurrentHash \in DOMAIN cache.gcs_urls
    /\ LET updated_url == Current.name IN
       /\ cache' = IF Current.name \in bucket /\ cache.gcs_urls[CurrentHash] # updated_url
                   THEN [cache EXCEPT !.gcs_urls = DictSet(@, CurrentHash, updated_url)]
                   ELSE cache
       /\ IF cache' # cache THEN save_cache(cache') ELSE UNCHANGED cacheFile
       /\ EmitPlan(Current.name, cache'.gcs_urls[CurrentHash])
    /\ processed_files' = processed_files \cup {CurrentHash}
    /\ Continue("cached")
    /\ UNCHANGED <<exit, harness, directory, remote, bucket, ledgerFile, failed_files, snapshot, scanned,
                   rows_count, wi, runs, faults, edits,
                   loaded_cache, append_errors>>

\* upload_to_gcs, the digest has a cached URL and blob.exists or make_public raises
CacheHitFails ==
    /\ pc = "process" /\ idx <= Len(organized_files)
    /\ ~IsEdited(Current.name)
    /\ CurrentHash \in DOMAIN cache.gcs_urls
    /\ Fault
    /\ RecordFailure(Current.name, "cache_failed")
    /\ UNCHANGED <<exit, harness, env, cache, snapshot, scanned, plan, processed_files, rows_count, wi,
                   runs, edits,
                   loaded_cache, append_errors>>

MarkPending_Unsaved(file_hash) ==
    /\ cache' = [cache EXCEPT !.processed_files = DictSet(@, file_hash, PendingEntry)]
    /\ UNCHANGED cacheFile

\* cache['processed_files'][file_hash] = 'pending'; save_cache(cache)
MarkPending(file_hash) ==
    /\ cache' = [cache EXCEPT !.processed_files = DictSet(@, file_hash, PendingEntry)]
    /\ save_cache(cache')

\* upload_to_gcs, no cached URL: the marker is set before the loop of attempts
BeginPending ==
    /\ pc = "process" /\ idx <= Len(organized_files)
    /\ ~IsEdited(Current.name)
    /\ CurrentHash \notin DOMAIN cache.gcs_urls
    /\ MarkPending(CurrentHash)
    /\ attempt' = 0
    /\ pc' = "upload"
    /\ UNCHANGED <<exit, harness, directory, remote, bucket, ledgerFile, failed_files, snapshot, scanned, idx,
                   plan, processed_files, rows_count, wi, outcomes, runs, faults, edits,
                   loaded_cache, append_errors>>

\* time.time(): later in a later run, and later at a later file of the same run
Now == runs * (Cardinality(Names) + 1) + idx

\* upload_to_gcs, an attempt of the loop succeeds: the blob is there and public,
\* the URL and the time are recorded and the cache saved
UploadSucceeds ==
    /\ pc = "upload"
    /\ bucket' = bucket \cup {Current.name}
    /\ cache' = [cache EXCEPT !.gcs_urls = DictSet(@, CurrentHash, Current.name),
                              !.processed_files = DictSet(@, CurrentHash, DoneEntry(Now))]
    /\ save_cache(cache')
    /\ processed_files' = processed_files \cup {CurrentHash}
    /\ EmitPlan(Current.name, Current.name)
    /\ Continue("uploaded")
    /\ UNCHANGED <<exit, harness, directory, remote, ledgerFile, failed_files, snapshot, scanned, rows_count, wi,
                   runs, faults, edits,
                   loaded_cache, append_errors>>

RemoveMarker_Forgotten(file_hash) == UNCHANGED <<cache, cacheFile>>

\* del cache['processed_files'][file_hash]; save_cache(cache)
RemoveMarker(file_hash) ==
    /\ cache' = [cache EXCEPT !.processed_files = DictDel(@, file_hash)]
    /\ save_cache(cache')

\* upload_to_gcs, an attempt of the loop raises; stored: the blob was written
\* before the error.  The last attempt removes the marker, saves and raises, and
\* process_files records the file as failed.
UploadFails(stored) ==
    /\ pc = "upload"
    /\ IF attempt = 0 THEN Fault ELSE UNCHANGED faults
    /\ bucket' = IF stored THEN bucket \cup {Current.name} ELSE bucket
    /\ IF attempt = retries - 1 /\ CurrentHash \in DOMAIN cache.processed_files
       THEN /\ RemoveMarker(CurrentHash)
            /\ RecordFailure(Current.name, "upload_failed")
       ELSE /\ attempt' = attempt + 1
            /\ UNCHANGED <<cache, cacheFile, failed_files, idx, pc, outcomes>>
    /\ UNCHANGED <<exit, harness, directory, remote, ledgerFile, snapshot, scanned, plan, processed_files,
                   rows_count, wi, runs, edits,
                   loaded_cache, append_errors>>

\* process_files, after the loop: the cache is saved when the number of processed
\* digests is a positive multiple of save_every
EndProcess ==
    /\ pc = "process" /\ idx > Len(organized_files)
    /\ IF Cardinality(processed_files) % save_every = 0 /\ processed_files # {}
       THEN save_cache(cache)
       ELSE UNCHANGED cacheFile
    /\ pc' = "finalize"
    /\ UNCHANGED <<exit, harness, directory, remote, bucket, ledgerFile, mem, runs, faults, edits>>

(***************************************************************************)
(* main, after process_files: the cache clean-up and the two saves         *)
(***************************************************************************)
Evict_Oldest(pf, limit) ==
    LET done == {k \in DOMAIN pf : ~pf[k].pending}
        oldest == {k \in done : Cardinality({j \in done : pf[j].ts < pf[k].ts}) < limit}
        kept == oldest \cup {k \in DOMAIN pf : pf[k].pending}
    IN [k \in kept |-> pf[k]]

\* oldest_files[-cache_limit:] + the pending entries
Evict(pf, limit) ==
    LET done == {k \in DOMAIN pf : ~pf[k].pending}
        newest == {k \in done : Cardinality({j \in done : pf[j].ts > pf[k].ts}) < limit}
        kept == newest \cup {k \in DOMAIN pf : pf[k].pending}
    IN [k \in kept |-> pf[k]]

\* {k: v for k, v in ... if k in processed_files and v != 'pending'}
KeepProcessed(pf, processed) ==
    [k \in {x \in DOMAIN pf : x \in processed /\ ~pf[x].pending} |-> pf[k]]

\* lines 660-665 alone: the dict that line 667 then filters
EvictIfOver(pf) ==
    IF Cardinality(DOMAIN pf) > cache_limit THEN Evict(pf, cache_limit) ELSE pf

CleanUp(pf, processed) ==
    KeepProcessed(IF Cardinality(DOMAIN pf) > cache_limit THEN Evict(pf, cache_limit) ELSE pf,
                  processed)

Finalize ==
    /\ pc = "finalize"
    /\ cache' = [cache EXCEPT !.processed_files = CleanUp(@, processed_files)]
    /\ save_cache(cache')
    /\ pc' = "save_ledger"
    /\ UNCHANGED <<exit, harness, directory, remote, bucket, ledgerFile, failed_files, snapshot, scanned, idx,
                   attempt, plan, processed_files, rows_count, wi, outcomes, runs, faults,
                   edits,
                   loaded_cache, append_errors>>

\* where main goes on once the given part of the write phase is over
AfterLedger ==
    IF cells_to_update # <<>> THEN "update_cells"
    ELSE IF rows_to_add # <<>> THEN "append_rows" ELSE "count_rows"

AfterCells == IF rows_to_add # <<>> THEN "append_rows" ELSE "count_rows"

\* save_failed_files(failed_files)
SaveLedger ==
    /\ pc = "save_ledger"
    /\ ledgerFile' = failed_files
    /\ pc' = AfterLedger
    /\ UNCHANGED <<exit, harness, directory, remote, bucket, cacheFile, mem, runs, faults, edits>>

(***************************************************************************)
(* update_spreadsheet                                                      *)
(***************************************************************************)
\* one batch of cells; ok: safe_update_cells returned True
UpdateCellsBatch(ok) ==
    /\ pc = "update_cells"
    /\ LET batch == SubSeq(cells_to_update, wi + 1,
                           Min(wi + cell_batch_size, Len(cells_to_update)))
       IN IF ok THEN remote' = update_cells(remote, batch) /\ UNCHANGED faults
          ELSE Fault /\ UNCHANGED remote
    /\ IF wi + cell_batch_size < Len(cells_to_update)
       THEN wi' = wi + cell_batch_size /\ UNCHANGED pc
       ELSE wi' = 0 /\ pc' = AfterCells
    /\ UNCHANGED <<exit, harness, directory, bucket, cacheFile, ledgerFile, cache, failed_files, snapshot,
                   scanned, idx, attempt, plan, processed_files, rows_count, outcomes,
                   runs, edits,
                   loaded_cache, append_errors>>

RowBatch == SubSeq(rows_to_add, wi + 1, Min(wi + row_batch_size, Len(rows_to_add)))

NextRowBatch ==
    IF wi + row_batch_size < Len(rows_to_add)
    THEN wi' = wi + row_batch_size /\ UNCHANGED pc
    ELSE wi' = 0 /\ pc' = "count_rows"

\* one batch of rows, safe_append_rows returned True
AppendRowsBatch ==
    /\ pc = "append_rows"
    /\ remote' = remote \o RowBatch
    /\ NextRowBatch
    /\ UNCHANGED <<exit, harness, directory, bucket, cacheFile, ledgerFile, cache, failed_files, snapshot,
                   scanned, idx, attempt, plan, processed_files, rows_count, outcomes,
                   runs, faults, edits,
                   loaded_cache, append_errors>>

append_one_by_one_StopAtFirstError(batch, errors) ==
    LET bad == {i \in DOMAIN batch : i \in errors}
        first == IF bad = {} THEN Len(batch) + 1 ELSE CHOOSE i \in bad : \A j \in bad : i <= j
    IN SubSeq(batch, 1, first - 1)

\* for row_data in batch: try: worksheet.append_row(row_data) except: log.
\* errors: the places in the batch of the rows whose append_row raises
append_one_by_one(batch, errors) ==
    LET F[i \in 0..Len(batch)] ==
            IF i = 0 THEN <<>>
            ELSE IF i \notin errors THEN Append(F[i - 1], batch[i]) ELSE F[i - 1]
    IN F[Len(batch)]

\* one batch of rows, safe_append_rows returned False: the rows are appended one
\* by one; appended: the places in the batch of the rows whose append_row succeeds
AppendRowsOneByOne(appended) ==
    /\ pc = "append_rows"
    /\ Fault
    /\ appended \subseteq DOMAIN RowBatch
    /\ remote' = remote \o append_one_by_one(RowBatch, DOMAIN RowBatch \ appended)
    /\ append_errors' = append_errors \cup {wi + i : i \in DOMAIN RowBatch \ appended}
    /\ NextRowBatch
    /\ UNCHANGED <<exit, harness, directory, bucket, cacheFile, ledgerFile, cache, failed_files,
                   snapshot, scanned, idx, attempt, plan, processed_files, rows_count,
                   outcomes, runs, edits, loaded_cache>>

\* worksheet.append_rows raises an error that is no APIError: safe_append_rows does
\* not catch it and the handler of main ends the run
AppendRowsRaises ==
    /\ pc = "append_rows"
    /\ Fault
    /\ ProcessEnds
    /\ exit' = "handler"
    /\ UNCHANGED <<harness, env, runs, edits>>

(***************************************************************************)
(* main, the number of rows, and update_thumbnail_formula                  *)
(***************************************************************************)
\* rows_count is set and update_thumbnail_formula starts; with no row it has no
\* batch to write, main only logs and the process ends
GoThumbnails(n) ==
    IF n > 0
    THEN /\ rows_count' = n
         /\ pc' = "thumbnails"
         /\ UNCHANGED <<cache, failed_files, snapshot, scanned, idx, attempt, plan,
                        processed_files, wi, outcomes,
                   loaded_cache, append_errors, exit>>
    ELSE ProcessEnds /\ exit' = "returned"

\* len(worksheet.get_all_values()) - 1
CountRows ==
    /\ pc = "count_rows"
    /\ GoThumbnails(Len(remote))
    /\ UNCHANGED <<harness, env, runs, faults, edits>>

\* get_all_values raises: rows_count = len(file_map) + len(rows_to_add)
CountRowsFails ==
    /\ pc = "count_rows"
    /\ Fault
    /\ GoThumbnails(Cardinality(DOMAIN file_map) + Len(rows_to_add))
    /\ UNCHANGED <<harness, env, runs, edits>>

\* cells_to_update of update_thumbnail_formula: rows 2 .. rows_count + 1
ThumbnailCells == [i \in 1..rows_count |-> Cell(i + 1, ColThumbnail, Formula)]

\* one batch of thumbnail cells; ok: safe_update_cells returned True.  After the
\* last batch main only logs, and the process ends.
ThumbnailBatch(ok) ==
    /\ pc = "thumbnails"
    /\ LET batch == SubSeq(ThumbnailCells, wi + 1, Min(wi + thumb_batch_size, rows_count))
       IN IF ok THEN remote' = update_cells(remote, batch) /\ UNCHANGED faults
          ELSE Fault /\ UNCHANGED remote
    /\ IF wi + thumb_batch_size < rows_count
       THEN /\ wi' = wi + thumb_batch_size
            /\ UNCHANGED <<pc, cache, failed_files, snapshot, scanned, idx, attempt, plan,
                           processed_files, rows_count, outcomes,
                   loaded_cache, append_errors, exit>>
       ELSE ProcessEnds /\ exit' = "returned"
    /\ UNCHANGED <<harness, directory, bucket, cacheFile, ledgerFile, runs, edits>>

\* worksheet.row_values(1) raises: update_thumbnail_formula logs and returns
ThumbnailHeadersFail ==
    /\ pc = "thumbnails" /\ wi = 0
    /\ Fault
    /\ ProcessEnds
    /\ exit' = "returned"
    /\ UNCHANGED <<harness, env, runs, edits>>

(***************************************************************************)
(* The environment                                                         *)
(***************************************************************************)
\* the process dies where it stands
Crash ==
    /\ pc # "idle"
    /\ Fault
    /\ ProcessEnds
    /\ exit' = "killed"
    /\ UNCHANGED <<harness, env, runs, edits>>

\* between two runs an operator edits the title of a row by hand and marks the row
\* Edited, or clears the mark of a row
OperatorEdit(i) ==
    /\ pc = "idle"
    /\ edits < MaxEdits
    /\ edits' = edits + 1
    /\ i \in DOMAIN remote
    /\ remote' = [remote EXCEPT ![i] =
                    IF @[ColStatus] # "Edited"
                    THEN [@ EXCEPT ![ColStatus] = "Edited", ![ColTitle] = Manual]
                    ELSE [@ EXCEPT ![ColStatus] = ""]]
    /\ UNCHANGED <<exit, harness, directory, bucket, cacheFile, ledgerFile, pc, mem, runs, faults>>

Next ==
    \/ StartRun
    \/ SetupFails
    \/ SnapshotRead
    \/ SnapshotFails
    \/ \E ok \in BOOLEAN : ResetNewBatch(ok)
    \/ \E order \in GlobOrders, unreadable \in SUBSET Names : Scan(order, unreadable)
    \/ HashFails
    \/ SkipEdited
    \/ CacheHit
    \/ CacheHitFails
    \/ BeginPending
    \/ UploadSucceeds
    \/ \E stored \in BOOLEAN : UploadFails(stored)
    \/ EndProcess
    \/ Finalize
    \/ SaveLedger
    \/ \E ok \in BOOLEAN : UpdateCellsBatch(ok)
    \/ AppendRowsBatch
    \/ \E appended \in SUBSET (1..Len(rows_to_add)) : AppendRowsOneByOne(appended)
    \/ AppendRowsRaises
    \/ CountRows
    \/ CountRowsFails
    \/ \E ok \in BOOLEAN : ThumbnailBatch(ok)
    \/ ThumbnailHeadersFail
    \/ Crash
    \/ \E i \in 1..Len(remote) : OperatorEdit(i)

Spec == Init /\ [][Next]_vars

(***************************************************************************)
(* parse_filename.  A file name is the sequence of its characters, a       *)
(* token a sequence of characters too; a field that is None is Absent.     *)
(***************************************************************************)
Letters == {"A", "L", "c", "t", "w", "b"}
Alnum == Letters \cup Digits
Absent == <<None>>

\* the places of character c in s
Places(s, c) == {i \in DOMAIN s : s[i] = c}

\* os.path.basename: what follows the last separator
basename(path) ==
    LET seps == Places(path, "/")
        last == IF seps = {} THEN 0 ELSE CHOOSE i \in seps : \A j \in seps : j <= i
    IN SubSeq(path, last + 1, Len(path))

\* os.path.splitext(...)[0]: what precedes the last dot, unless only dots precede it
splitext_root(name) ==
    LET dots == Places(name, ".")
        last == IF dots = {} THEN 0 ELSE CHOOSE i \in dots : \A j \in dots : j <= i
    IN IF last = 0 \/ (\A i \in 1..(last - 1) : name[i] = ".") THEN name
       ELSE SubSeq(name, 1, last - 1)

\* str.split(sep): the pieces between the separators, empty pieces included
split(s, sep) ==
    LET cuts == Places(s, sep)
        n == Cardinality(cuts)
        \* the place of the k-th separator; 0 before the first, Len + 1 after the last
        cut(k) == IF k = 0 THEN 0
                  ELSE IF k = n + 1 THEN Len(s) + 1
                  ELSE CHOOSE i \in cuts : Cardinality({j \in cuts : j < i}) = k - 1
    IN [k \in 1..(n + 1) |-> SubSeq(s, cut(k - 1) + 1, cut(k) - 1)]

\* sep.join(parts)
RECURSIVE join(_, _)
join(parts, sep) ==
    IF parts = <<>> THEN <<>>
    ELSE IF Len(parts) = 1 THEN parts[1]
    ELSE parts[1] \o <<sep>> \o join(Tail(parts), sep)

year_pattern_TwoDigits(tok) == Len(tok) = 2 /\ \A i \in DOMAIN tok : tok[i] \in Digits

\* r'^\d{4}$'
year_pattern(tok) == Len(tok) = 4 /\ \A i \in DOMAIN tok : tok[i] \in Digits

\* r'^[A-Za-z0-9][A-Za-z0-9\-]*$'
client_pattern(tok) ==
    /\ Len(tok) >= 1
    /\ tok[1] \in Alnum
    /\ \A i \in 2..Len(tok) : tok[i] \in Alnum \cup {"-"}

\* the same expression under two more names
title_pattern(tok) == client_pattern(tok)
subtitle_pattern(tok) == client_pattern(tok)

\* part.startswith('t-') and re.match(r'^t-[A-Za-z0-9\-]+$', part)
tag_pattern(tok) ==
    /\ Len(tok) >= 3
    /\ tok[1] = "t" /\ tok[2] = "-"
    /\ \A i \in 3..Len(tok) : tok[i] \in Alnum \cup {"-"}

\* str.replace('-', ' ')
replace_hyphens(tok) == [i \in DOMAIN tok |-> IF tok[i] = "-" THEN " " ELSE tok[i]]

\* the replace of a field that is set
replace_if_set(field) ==
    IF field = Absent \/ field = <<>> THEN field ELSE replace_hyphens(field)

\* the loop over the parts that are left once year, client and title are taken
RECURSIVE classify_rest(_, _)
classify_rest(parts, metadata) ==
    IF parts = <<>> THEN metadata
    ELSE LET part == Head(parts)
             tag_value == replace_hyphens(part)
             next ==
                IF tag_pattern(part)
                THEN [metadata EXCEPT !.tags = Append(@, tag_value)]
                ELSE IF subtitle_pattern(part)
                THEN IF metadata.subtitle = Absent
                     THEN [metadata EXCEPT !.subtitle = replace_hyphens(part)]
                     ELSE [metadata EXCEPT !.tags = Append(@, tag_value)]
                ELSE [metadata EXCEPT !.tags = Append(@, tag_value),
                                      !.client = replace_if_set(@),
                                      !.title = replace_if_set(@),
                                      !.subtitle = replace_if_set(@)]
         IN classify_rest(Tail(parts), next)

parse_filename(filename) ==
    LET parts0 == split(splitext_root(basename(filename)), "_")
        has_seq == number_pattern(parts0[Len(parts0)])
        parts1 == IF has_seq THEN SubSeq(parts0, 1, Len(parts0) - 1) ELSE parts0
        has_year == parts1 # <<>> /\ year_pattern(parts1[1])
        parts2 == IF has_year THEN Tail(parts1) ELSE parts1
        has_client == parts2 # <<>> /\ client_pattern(parts2[1])
        parts3 == IF has_client THEN Tail(parts2) ELSE parts2
        has_title == parts3 # <<>> /\ title_pattern(parts3[1])
        parts4 == IF has_title THEN Tail(parts3) ELSE parts3
    IN classify_rest(parts4,
          [year |-> IF has_year THEN parts1[1] ELSE Absent,
           client |-> IF has_client THEN parts2[1] ELSE Absent,
           title |-> IF has_title THEN parts3[1] ELSE Absent,
           subtitle |-> Absent,
           tags |-> <<>>,
           sequence |-> IF has_seq THEN parts0[Len(parts0)] ELSE Absent,
           base_name |-> join(parts1, "_")])

(***************************************************************************)
(* generate_detail_text.  The fields are strings, or None.                 *)
(***************************************************************************)
\* not x
Falsy(x) == x = None \/ x = ""

\* x or ""
or_empty(x) == IF Falsy(x) THEN "" ELSE x

generate_detail_text_ClientFirst(year, client, title, subtitle, sequence) ==
    IF Falsy(year) /\ Falsy(client) /\ Falsy(title) THEN ""
    ELSE or_empty(title)
         \o (IF or_empty(subtitle) # "" THEN " - " \o or_empty(subtitle) ELSE "")
         \o (IF or_empty(client) # "" THEN " for " \o or_empty(client) ELSE "")
         \o (IF or_empty(sequence) # "" THEN " (" \o or_empty(sequence) \o ")" ELSE "")
         \o (IF or_empty(year) # "" THEN " (" \o or_empty(year) \o ")" ELSE "")

generate_detail_text(year, client, title, subtitle, sequence) ==
    IF Falsy(year) /\ Falsy(client) /\ Falsy(title) THEN ""
    ELSE LET detail0 == or_empty(title)
             detail1 == IF or_empty(subtitle) # ""
                        THEN detail0 \o " - " \o or_empty(subtitle) ELSE detail0
             detail2 == IF or_empty(sequence) # ""
                        THEN detail1 \o " (" \o or_empty(sequence) \o ")" ELSE detail1
             detail3 == IF or_empty(client) # ""
                        THEN detail2 \o " for " \o or_empty(client) ELSE detail2
         IN IF or_empty(year) # "" THEN detail3 \o " (" \o or_empty(year) \o ")" ELSE detail3

(***************************************************************************)
(* The loops of attempts of upload_to_gcs, safe_update_cells and           *)
(* safe_append_rows.  outs[a + 1] is what the call to the API does at      *)
(* attempt a: it succeeds, raises an APIError, or raises another error.    *)
(* The result tells what the caller gets and how many calls were made.     *)
(***************************************************************************)
AttemptOutcomes == {"ok", "APIError", "Exception"}

Gave(value, attempts) == [value |-> value, raised |-> FALSE, attempts |-> attempts]
Raised(attempts) == [value |-> None, raised |-> TRUE, attempts |-> attempts]

\* for attempt in range(retries): try ... return True; except APIError ...; except
\* Exception ...; return False
safe_update_cells(outs) ==
    LET try[k \in 0..retries] ==
            IF k = retries THEN Gave("False", retries)
            ELSE IF outs[k + 1] = "ok" THEN Gave("True", k + 1)
            ELSE try[k + 1]
    IN try[0]

\* for attempt in range(retries): try ... return True; except APIError ...; return
\* False.  Another error than an APIError leaves the function.
safe_append_rows(outs) ==
    LET try[k \in 0..retries] ==
            IF k = retries THEN Gave("False", retries)
            ELSE IF outs[k + 1] = "ok" THEN Gave("True", k + 1)
            ELSE IF outs[k + 1] = "APIError" THEN try[k + 1]
            ELSE Raised(k + 1)
    IN try[0]

\* upload_to_gcs from the pending marker on: the marker is set when the digest was
\* computed, and the last attempt raises only if the marker is there; without it
\* the loop ends and the function returns None
upload_attempts(file_hash, outs) ==
    LET marked == file_hash # None
        try[k \in 0..retries] ==
            IF k = retries THEN Gave(None, retries)
            ELSE IF outs[k + 1] = "ok" THEN Gave("url", k + 1)
            ELSE IF k = retries - 1 /\ marked THEN Raised(k + 1)
            ELSE try[k + 1]
    IN try[0]

(***************************************************************************)
(* The write phase of a run over a larger directory: the run has uploaded  *)
(* every one of n images without a failure and has saved the cache and     *)
(* the ledger; update_spreadsheet is about to start.  Either every image   *)
(* has a row from an earlier state of the sheet, or the sheet is empty.    *)
(***************************************************************************)
PlannedName(r) == "img_" \o ToString(r) \o ".jpg"
PlannedHash(r) == "md5_" \o ToString(r)

\* the numbers of images: one batch, a full batch, and one more than a batch
PlanSizes == {1, row_batch_size, row_batch_size + 1, MaxPlanned}

\* a row of the sheet whose cells were filled in for an earlier state of the file
StaleRow(name) ==
    [c \in 1..NCols |-> IF c = ColThumbnail THEN Formula
                        ELSE IF c = ColStatus THEN ""
                        ELSE IF c = ColFileID THEN name ELSE "stale"]

WriteInit ==
    \E n \in PlanSizes, has_rows \in BOOLEAN :
        LET names == [r \in 1..n |-> PlannedName(r)]
            place(x) == CHOOSE r \in 1..n : names[r] = x
            saved == [processed_files |->
                          [h \in {PlannedHash(r) : r \in 1..n} |->
                              DoneEntry(Cardinality(Names) + 1
                                        + (CHOOSE r \in 1..n : PlannedHash(r) = h))],
                      gcs_urls |->
                          [h \in {PlannedHash(r) : r \in 1..n} |->
                              names[CHOOSE r \in 1..n : PlannedHash(r) = h]]]
        IN /\ disk = [x \in Range(names) |-> PlannedHash(place(x))]
           /\ flat = FALSE
           /\ remote = IF has_rows THEN [r \in 1..n |-> StaleRow(names[r])] ELSE <<>>
           /\ bucket = Range(names)
           /\ cacheFile = saved
           /\ ledgerFile = <<>>
           /\ pc = IF has_rows THEN "update_cells" ELSE "append_rows"
           /\ cache = saved
           /\ failed_files = <<>>
           /\ file_map = BuildFileMap(remote, 1, EmptyDict)
           /\ new_to_empty_cells = <<>>
           /\ organized_files = [r \in 1..n |-> FileInfo(GlobPath(names[r]))]
           /\ duplicate_count = 0
           /\ scan_unreadable = {}
           /\ idx = n + 1
           /\ attempt = 0
           /\ rows_to_add = IF has_rows THEN <<>>
                            ELSE [r \in 1..n |-> row_data(names[r], names[r])]
           /\ cells_to_update =
                 IF has_rows
                 THEN Flatten([r \in 1..n |-> cell_updates(r + 1, names[r], names[r])])
                 ELSE <<>>
           /\ processed_files = {PlannedHash(r) : r \in 1..n}
           /\ rows_count = 0
           /\ wi = 0
           /\ outcomes = [r \in 1..n |-> "uploaded"]
           /\ loaded_cache = EmptyCache
           /\ append_errors = {}
           /\ exit = None
           /\ call = NoCall
           /\ result = None
           /\ runs = 1
           /\ faults = 0
           /\ edits = 0

\* the one-by-one appends of a batch: all succeed, all but one succeed, none does
FallbackChoices ==
    {DOMAIN RowBatch} \cup {DOMAIN RowBatch \ {k} : k \in DOMAIN RowBatch} \cup {{}}

WriteNext ==
    \/ \E ok \in BOOLEAN : UpdateCellsBatch(ok)
    \/ AppendRowsBatch
    \/ \E appended \in FallbackChoices : AppendRowsOneByOne(appended)
    \/ AppendRowsRaises
    \/ CountRows
    \/ CountRowsFails
    \/ \E ok \in BOOLEAN : ThumbnailBatch(ok)
    \/ ThumbnailHeadersFail

WriteSpec == WriteInit /\ [][WriteNext]_vars

(***************************************************************************)
(* Single calls of the functions that compute without touching the cache,  *)
(* the bucket or the sheet: the call is drawn in the initial state and the *)
(* one step of the behaviour returns its result.                           *)
(***************************************************************************)
\* tokens of file names: a year, a client with a hyphen, a title, a tag-marker
\* token, a sequence number, and a token that no pattern matches
TokYear == <<"2", "0", "2", "4">>
TokClient == <<"A", "-", "c">>
TokTitle == <<"L">>
TokTag == <<"t", "-", "w", "-", "b">>
TokSeq == <<"0", "1">>
TokBad == <<"#">>
Tokens == {TokYear, TokClient, TokTitle, TokTag, TokSeq, TokBad}

\* the sequences of at least one and at most n elements of S
SeqsUpTo(S, n) == UNION {[1..k -> S] : k \in 1..n}

\* the path of the file whose stem is the components joined by '_'
PathOf(components) == <<"d", "/">> \o join(components, "_") \o <<".", "j", "p", "g">>

ParseCalls ==
    {[fn |-> "parse_filename", filename |-> PathOf(c), components |-> c, returned |-> FALSE] :
        c \in SeqsUpTo(Tokens, MaxTokens)}

\* the names of the lists to group: two groups with sequence numbers, and a
\* name of the first group without one
GroupNames == Names \cup {"a.jpg", "b_01.png"}

GroupCalls ==
    {[fn |-> "group_files_by_sequence",
      image_files |-> [i \in DOMAIN l |-> GlobPath(l[i])],
      returned |-> FALSE] : l \in SeqsUpTo(GroupNames, MaxList)}

\* a field of a row: None, empty, or a value
DetailCalls ==
    {[fn |-> "generate_detail_text", year |-> y, client |-> c, title |-> t,
      subtitle |-> st, sequence |-> sq, returned |-> FALSE] :
        y \in {None, "", "2024"}, c \in {None, "", "Acme"}, t \in {None, "", "Launch"},
        st \in {None, "", "Hero"}, sq \in {None, "", "01"}}

\* what each of the attempts would do, and for the upload whether the digest of
\* the file could be computed
RetryCalls ==
    {[fn |-> f, outs |-> o, returned |-> FALSE] :
        f \in {"safe_update_cells", "safe_append_rows"},
        o \in [1..retries -> AttemptOutcomes]}
    \cup {[fn |-> "upload_to_gcs", file_hash |-> h, outs |-> o, returned |-> FALSE] :
              h \in {None, "h1"}, o \in [1..retries -> AttemptOutcomes]}

\* failed_files + image_files: names of the ledger, any number of times, and then
\* the paths that glob found, each once
CandidateLists ==
    LET paths == {LedgerPath("a_01.jpg"), LedgerPath("b.png")}
                     \cup {GlobPath(n) : n \in Names}
    IN {l \in SeqsUpTo(paths, MaxList) :
           \A i, j \in DOMAIN l :
               i < j => /\ l[i].rel \/ ~l[j].rel
                        /\ ~l[i].rel => l[i] # l[j]}

\* the caches that the pass can meet: empty, a digest committed, a digest pending
DedupCaches ==
    {EmptyCache,
     [processed_files |-> [h \in {"h1"} |-> DoneEntry(1)], gcs_urls |-> [h \in {"h1"} |-> "a_01.jpg"]],
     [processed_files |-> [h \in {"h1"} |-> PendingEntry], gcs_urls |-> EmptyDict]}

\* the dedup pass of main over a list of candidates, with the directory it reads
DedupCalls ==
    {[fn |-> "dedup_pass", all_image_files |-> l, cache |-> c, unreadable |-> u,
      disk |-> d, returned |-> FALSE] :
        l \in CandidateLists, c \in DedupCaches, u \in {{}, {"b.png"}}, d \in Disks}

Calls == ParseCalls \cup GroupCalls \cup DetailCalls \cup RetryCalls \cup DedupCalls

\* the process has not started, and one call of the given ones is to be made
InitWith(calls) ==
    /\ call \in calls
    /\ result = None
    /\ disk = IF call.fn = "dedup_pass" THEN call.disk ELSE [n \in Names |-> "h1"]
    /\ flat = (call.fn = "dedup_pass")
    /\ remote = <<>>
    /\ bucket = {}
    /\ cacheFile = EmptyCache
    /\ ledgerFile = <<>>
    /\ pc = "idle"
    /\ cache = EmptyCache
    /\ failed_files = <<>>
    /\ file_map = EmptyDict
    /\ new_to_empty_cells = <<>>
    /\ organized_files = <<>>
    /\ duplicate_count = 0
    /\ scan_unreadable = {}
    /\ idx = 0
    /\ attempt = 0
    /\ rows_to_add = <<>>
    /\ cells_to_update = <<>>
    /\ processed_files = {}
    /\ rows_count = 0
    /\ wi = 0
    /\ outcomes = <<>>
    /\ loaded_cache = EmptyCache
    /\ append_errors = {}
    /\ exit = None
    /\ runs = 0
    /\ faults = 0
    /\ edits = 0

CallInit == InitWith(Calls)

Returns(value) ==
    /\ ~call.returned
    /\ result' = value
    /\ call' = [call EXCEPT !.returned = TRUE]
    /\ UNCHANGED <<env, pc, mem, exit, runs, faults, edits>>

Call_parse_filename ==
    /\ call.fn = "parse_filename"
    /\ Returns(parse_filename(call.filename))

Call_group_files_by_sequence ==
    /\ call.fn = "group_files_by_sequence"
    /\ Returns(group_files_by_sequence(call.image_files))

Call_generate_detail_text ==
    /\ call.fn = "generate_detail_text"
    /\ Returns(generate_detail_text(call.year, call.client, call.title, call.subtitle,
                                    call.sequence))

Call_safe_update_cells ==
    /\ call.fn = "safe_update_cells"
    /\ Returns(safe_update_cells(call.outs))

Call_safe_append_rows ==
    /\ call.fn = "safe_append_rows"
    /\ Returns(safe_append_rows(call.outs))

Call_upload_to_gcs ==
    /\ call.fn = "upload_to_gcs"
    /\ Returns(upload_attempts(call.file_hash, call.outs))

Call_dedup_pass ==
    /\ call.fn = "dedup_pass"
    /\ Returns(DedupPass(call.all_image_files, call.cache, call.unreadable,
                         [unique_files |-> <<>>, file_hashes |-> EmptyDict,
                          duplicate_count |-> 0]))

CallNext ==
    \/ Call_dedup_pass
    \/ Call_safe_update_cells
    \/ Call_safe_append_rows
    \/ Call_upload_to_gcs
    \/ Call_parse_filename
    \/ Call_group_files_by_sequence
    \/ Call_generate_detail_text

CallSpec == CallInit /\ [][CallNext]_vars

(***************************************************************************)
(* Single calls of the end-of-run clean-up of main on caches around the    *)
(* ceiling.  The digests are numbered; the entries carry distinct          *)
(* timestamps, as time.time() gives them, in the order of the keys, in the *)
(* reverse order, or in an order that starts in the middle.                *)
(***************************************************************************)
Timestamps(n, order) ==
    [k \in 1..n |-> CASE order = "asc" -> k
                      [] order = "desc" -> n + 1 - k
                      [] order = "mid" -> ((k + n \div 2) % n) + 1]

CleanUpCall(n, order, pending, skipped) ==
    [fn |-> "clean_up",
     processed_files |-> [k \in 1..n |-> IF k \in pending THEN PendingEntry
                                         ELSE DoneEntry(Timestamps(n, order)[k])],
     processed |-> (1..n) \ skipped,
     returned |-> FALSE]

\* caches at and right below the ceiling, where nothing is evicted, and caches of
\* one and two entries more, without and with a pending entry
CleanUpCalls ==
    {CleanUpCall(n, o, p, skipped) :
        n \in {cache_limit - 1, cache_limit},
        o \in {"asc", "desc", "mid"},
        p \in {{}, {1}, {cache_limit - 1}, {1, cache_limit - 1}},
        skipped \in {{}, {2}}}
    \cup {CleanUpCall(n, o, p, {}) :
              n \in {cache_limit + 1, cache_limit + 2},
              o \in {"asc", "desc", "mid"},
              p \in {{}, {1}}}

EvictInit == InitWith(CleanUpCalls)

Call_clean_up ==
    /\ call.fn = "clean_up"
    /\ Returns([evicted |-> EvictIfOver(call.processed_files),
                saved |-> CleanUp(call.processed_files, call.processed)])

EvictNext == Call_clean_up

EvictSpec == EvictInit /\ [][EvictNext]_vars

(***************************************************************************)
(* Properties                                                              *)
(***************************************************************************)
\* cache['processed_files'][h] == 'pending'
PendingIn(c, h) == h \in DOMAIN c.processed_files /\ c.processed_files[h].pending

\* the plan holds a cell of the snapshot row of the file, or a row to insert
\* that carries the file name
PlanTouches(file_name) ==
    \/ /\ file_name \in DOMAIN file_map
       /\ \E k \in DOMAIN cells_to_update :
             cells_to_update[k].row = file_map[file_name].row_num
    \/ \E k \in DOMAIN rows_to_add : rows_to_add[k][ColFileID] = file_name

Failures == {"hash_failed", "cache_failed", "upload_failed"}

\* the names of the files that process_files left as failed so far, in order
RECURSIVE FailedUpTo(_)
FailedUpTo(i) ==
    IF i = 0 THEN <<>>
    ELSE IF outcomes[i] \in Failures
         THEN Append(FailedUpTo(i - 1), organized_files[i].name)
         ELSE FailedUpTo(i - 1)

FailedNames == FailedUpTo(Len(outcomes))

\* the positions of the run after the ledger was saved
AfterSave == {"update_cells", "append_rows", "count_rows", "thumbnails"}

\* the positions of the run after the dedup pass
AfterScan == {"process", "upload", "finalize", "save_ledger"} \cup AfterSave

\* C1: whatever its content, a file of organized_files whose name is a File ID
\* of the snapshot with Status 'Edited' has no cell of that row in cells_to_update
\* and no row with its name in rows_to_add.
C1_EditedNotPlanned ==
    \A i \in DOMAIN organized_files :
        LET file_name == organized_files[i].name IN
        (file_name \in DOMAIN file_map /\ file_map[file_name].Status = "Edited")
            => ~PlanTouches(file_name)

\* C1, its case: process_files has skipped an Edited file and planned another one
C1_Witness ==
    /\ \E i \in DOMAIN outcomes : outcomes[i] = "edited"
    /\ cells_to_update # <<>>

\* C2: no step of a run changes a row of the sheet whose Status is 'Edited'.
C2_EditedRowsUntouched ==
    [][\A i \in DOMAIN remote :
          (pc # "idle" /\ remote[i][ColStatus] = "Edited")
              => (i \in DOMAIN remote' /\ remote'[i] = remote[i])]_vars

\* C3: after runs in which nothing failed, over the same files and with the
\* cache the earlier runs saved, a run plans no insert and no update.
C3_SecondRunPlansNothing ==
    (pc = "finalize" /\ runs >= 2 /\ faults = 0 /\ edits = 0)
        => (rows_to_add = <<>> /\ cells_to_update = <<>>)

\* C4: a digest whose upload was committed in some run is marked processed in
\* the cache that every later run loads.
C4_CommittedStaysProcessed ==
    \A h \in DOMAIN loaded_cache.gcs_urls : IsProcessed(loaded_cache, h)

\* C5 as stated: a digest that is pending in the loaded cache keeps a readable
\* file of that digest among the candidates, and the upload of that file is
\* attempted again.
C5_PendingAlwaysUploaded ==
    /\ pc \in AfterScan =>
          \A n \in Names :
              (n \notin scan_unreadable /\ PendingIn(loaded_cache, disk[n]))
                  => \E i \in DOMAIN organized_files : disk[organized_files[i].name] = disk[n]
    /\ \A i \in DOMAIN outcomes :
          PendingIn(loaded_cache, disk[organized_files[i].name])
              => outcomes[i] \in {"uploaded", "upload_failed"}

\* C5, amended: a digest that is pending in the loaded cache keeps a readable
\* file of that digest among the candidates, and process_files takes that file
\* to the upload attempts unless its snapshot row is Edited or its digest cannot
\* be computed any more.
C5_PendingRetried ==
    /\ pc \in AfterScan =>
          \A n \in Names :
              (n \notin scan_unreadable /\ PendingIn(loaded_cache, disk[n]))
                  => \E i \in DOMAIN organized_files : disk[organized_files[i].name] = disk[n]
    /\ \A i \in DOMAIN outcomes :
          PendingIn(loaded_cache, disk[organized_files[i].name])
              => outcomes[i] \in {"uploaded", "upload_failed", "edited", "hash_failed"}

\* C5, its case: the file of a digest left pending by a crash was uploaded
C5_Witness ==
    \E i \in DOMAIN outcomes :
        /\ PendingIn(loaded_cache, disk[organized_files[i].name])
        /\ outcomes[i] = "uploaded"

C8_FailureDoesNotStopTheLoop ==
    pc = "finalize" =>
        /\ Len(outcomes) = Len(organized_files)
        /\ \A j \in DOMAIN outcomes :
              outcomes[j] \in {"uploaded", "cached"} => PlanTouches(organized_files[j].name)

\* C8, its case: a file failed and a later file was uploaded and planned
C8_Witness ==
    /\ pc = "finalize"
    /\ \E i, j \in DOMAIN outcomes :
          /\ i < j
          /\ outcomes[i] \in {"hash_failed", "upload_failed"}
          /\ outcomes[j] = "uploaded"
          /\ PlanTouches(organized_files[j].name)

\* C9: the ledger that a run saved holds exactly the names that failed in that
\* run.
C9_LedgerHoldsOnlyThisRun ==
    pc \in AfterSave => ledgerFile = FailedNames

\* C10: when process_files starts, every readable file of the loaded ledger whose
\* digest is not processed yet has a candidate that came from the ledger, ahead of
\* every candidate that came from the scan.
C10_LedgerFilesFirst ==
    (pc = "process" /\ outcomes = <<>>) =>
        \A n \in Range(failed_files) :
            (n \notin scan_unreadable /\ ~IsProcessed(loaded_cache, disk[n])) =>
                \E i \in DOMAIN organized_files :
                    /\ organized_files[i].path.rel
                    /\ disk[organized_files[i].name] = disk[n]
                    /\ \A j \in 1..(i - 1) : organized_files[j].path.rel

\* the positions of the run after update_spreadsheet returned
AfterWrite == {"count_rows", "thumbnails"}

\* the sheet has the row of the insert, or the cells of the update, of the file
RowWritten(file_name) ==
    /\ \A k \in DOMAIN rows_to_add :
          rows_to_add[k][ColFileID] = file_name
              => \E i \in DOMAIN remote : remote[i] = rows_to_add[k]
    /\ \A k \in DOMAIN cells_to_update :
          (file_name \in DOMAIN file_map
           /\ cells_to_update[k].row = file_map[file_name].row_num)
              => LET c == cells_to_update[k] IN
                 /\ c.row - 1 \in DOMAIN remote
                 /\ remote[c.row - 1][c.col] = c.value

\* C12: once update_spreadsheet has returned, a planned file whose row did not
\* reach the sheet has its name in the saved failure ledger.
C12_FailedWriteInLedger ==
    pc \in AfterWrite =>
        \A i \in DOMAIN organized_files :
            (PlanTouches(organized_files[i].name) /\ ~RowWritten(organized_files[i].name))
                => organized_files[i].name \in Range(ledgerFile)

\* C13: the clean-up of the cache at the end of a run removes no pending entry.
C13_CleanUpKeepsPending ==
    [][(pc = "finalize" /\ pc' = "save_ledger")
          => \A h \in Hashes : PendingIn(cacheFile, h) => PendingIn(cacheFile', h)]_vars

\* C14: a file whose digest the dedup pass could not compute is in failed_files
\* from then on, as a file whose digest process_files could not compute is.
C14_HashFailureInLedger ==
    /\ pc \in AfterScan => \A n \in scan_unreadable : n \in Range(failed_files)
    /\ \A i \in DOMAIN outcomes :
          outcomes[i] = "hash_failed" => organized_files[i].name \in Range(failed_files)

\* C16: the thumbnail pass runs only when every planned cell and every planned
\* row has reached the sheet.
C16_ThumbnailsAfterSuccess ==
    pc = "thumbnails" =>
        \A i \in DOMAIN organized_files : RowWritten(organized_files[i].name)

\* C11: once update_spreadsheet has returned, the row of every planned update
\* either carries every cell of the update or is as it was before.
C11_RowUpdateAllOrNothing ==
    pc \in AfterWrite =>
        \A i \in DOMAIN organized_files :
            LET file_name == organized_files[i].name IN
            file_name \in DOMAIN file_map =>
                \/ RowWritten(file_name)
                \/ remote[file_map[file_name].row_num - 1] = StaleRow(file_name)

\* the sheet has a row of the file
InSheet(file_name) == \E i \in DOMAIN remote : remote[i][ColFileID] = file_name

\* C15: over an empty sheet, the rows of the batches handled so far that are in
\* the sheet are exactly those whose own append did not raise: an error of one
\* append costs neither the rest of its batch nor a later batch.
C15_FallbackAppendsTheRest ==
    pc \in {"append_rows"} \cup AfterWrite =>
        \A k \in 1..(IF pc = "append_rows" THEN wi ELSE Len(rows_to_add)) :
            InSheet(rows_to_add[k][ColFileID]) <=> k \notin append_errors

\* C15, its case: a batch fell back to single appends, one of them raised, a
\* later row of the batch and the row of the next batch are in the sheet
C15_Witness ==
    /\ pc \in AfterWrite
    /\ Len(rows_to_add) > row_batch_size
    /\ \E e \in append_errors :
          /\ e < row_batch_size
          /\ InSheet(rows_to_add[e + 1][ColFileID])
    /\ InSheet(rows_to_add[row_batch_size + 1][ColFileID])

Returned(fn) == call.fn = fn /\ call.returned

\* the tags that a tag-marker token stands for: the pieces after the marker
SubTags(tok) == split(SubSeq(tok, 3, Len(tok)), "-")

\* year, client, title, further components that a pattern matches, sequence
WellFormed(c) ==
    /\ Len(c) >= 4
    /\ c[1] = TokYear
    /\ c[Len(c)] = TokSeq
    /\ \A i \in 2..(Len(c) - 1) : c[i] \in Tokens \ {TokBad}

\* C17: for a well-formed name whose further components are all tag-marker
\* tokens, the tags are the sub-tags of those tokens, in order, without the marker.
C17_TagTokensSplit ==
    (/\ Returned("parse_filename")
     /\ WellFormed(call.components)
     /\ Len(call.components) >= 5
     /\ \A i \in 4..(Len(call.components) - 1) : call.components[i] = TokTag)
        => result.tags =
              Flatten([i \in 1..(Len(call.components) - 4) |->
                          SubTags(call.components[i + 3])])

C19_GroupedAndSorted ==
    Returned("group_files_by_sequence") =>
        /\ Len(result) = Len(call.image_files)
        /\ \A p \in Range(call.image_files) :
              Cardinality({i \in DOMAIN result : result[i].path = p})
                  = Cardinality({i \in DOMAIN call.image_files : call.image_files[i] = p})
        /\ \A i, j, k \in DOMAIN result :
              (i < j /\ j < k /\ BaseName(result[i].name) = BaseName(result[k].name))
                  => BaseName(result[j].name) = BaseName(result[i].name)
        /\ \A i, j \in DOMAIN result :
              (i < j /\ BaseName(result[i].name) = BaseName(result[j].name))
                  => SequenceKey(result[i].name) <= SequenceKey(result[j].name)

\* C19, its case: a list that is neither grouped nor sorted comes back both
C19_Witness ==
    /\ Returned("group_files_by_sequence")
    /\ call.image_files = <<GlobPath("a_02.jpg"), GlobPath("b.png"), GlobPath("a_01.jpg")>>
    /\ [i \in DOMAIN result |-> result[i].name] = <<"a_01.jpg", "a_02.jpg", "b.png">>

\* a field that is neither None nor empty
Present(x) == x # None /\ x # ""

\* the piece a field contributes to the text, nothing when the field is absent
Piece(before, x, after) == IF Present(x) THEN before \o x \o after ELSE ""

\* C20: generate_detail_text returns the empty string when title, client and
\* year are all absent, and otherwise title, ' - subtitle', ' (sequence)',
\* ' for client' and ' (year)' joined in this order, each only if present.
C20_DetailComposition ==
    Returned("generate_detail_text") =>
        result = IF ~Present(call.title) /\ ~Present(call.client) /\ ~Present(call.year)
                 THEN ""
                 ELSE Piece("", call.title, "") \o Piece(" - ", call.subtitle, "")
                      \o Piece(" (", call.sequence, ")") \o Piece(" for ", call.client, "")
                      \o Piece(" (", call.year, ")")

\* C20, its case: a call with all five fields present has returned the full text
C20_Witness ==
    /\ Returned("generate_detail_text")
    /\ Present(call.title) /\ Present(call.subtitle) /\ Present(call.sequence)
    /\ Present(call.client) /\ Present(call.year)
    /\ result = "Launch - Hero (01) for Acme (2024)"

(***************************************************************************)
(* The cache entry of a content hash                                       *)
(***************************************************************************)
\* the file that process_files handled last, once upload_to_gcs has returned a URL
UploadReturned ==
    /\ pc = "process" /\ idx > 1 /\ Len(outcomes) = idx - 1
    /\ outcomes[idx - 1] \in {"cached", "uploaded"}

LastHash == disk[organized_files[idx - 1].name]

\* C21: once upload_to_gcs has returned a URL for a file, on the cached path or
\* after an upload, processed_files holds a timestamp for the hash of the file
\* and gcs_urls holds a URL for it.
C21_ReturnLeavesCommitted ==
    UploadReturned => /\ IsProcessed(cache, LastHash)
                      /\ LastHash \in DOMAIN cache.gcs_urls

\* the state of the entry of hash h in the processed_files of cache c
EntryState(c, h) ==
    IF h \notin DOMAIN c.processed_files THEN "Unseen"
    ELSE IF c.processed_files[h].pending THEN "Pending" ELSE "Committed"

\* C22: in the saved cache the entry of a hash changes only from Unseen to
\* Pending, from Pending to Committed and from Pending to Unseen, unless the
\* cache is above its ceiling and the eviction drops its oldest entries.
C22_EntryLifecycle ==
    [][\A h \in Hashes :
          \/ EntryState(cacheFile', h) = EntryState(cacheFile, h)
          \/ <<EntryState(cacheFile, h), EntryState(cacheFile', h)>>
                 \in {<<"Unseen", "Pending">>, <<"Pending", "Committed">>,
                      <<"Pending", "Unseen">>}
          \/ /\ Cardinality(DOMAIN cache.processed_files) > cache_limit
             /\ EntryState(cacheFile, h) = "Committed"
             /\ EntryState(cacheFile', h) = "Unseen"]_vars

(***************************************************************************)
(* The retried operations                                                  *)
(***************************************************************************)
Retried == {"upload_to_gcs", "safe_update_cells", "safe_append_rows"}

\* the attempts that would succeed
Successes == {a \in DOMAIN call.outs : call.outs[a] = "ok"}

\* C23: a retried operation makes at most three attempts; it stops at the first
\* attempt that succeeds; and when none of the three succeeds it makes all three
\* and then reports the failure, the upload by raising and the batch calls by
\* returning False, whatever the errors were.
C23_ThreeAttemptsThenFailure ==
    (call.fn \in Retried /\ call.returned) =>
        /\ result.attempts <= retries
        /\ Successes # {} =>
              /\ \A a \in Successes : result.attempts <= a
              /\ result.attempts \in Successes
              /\ ~result.raised
        /\ Successes = {} =>
              /\ result.attempts = retries
              /\ IF call.fn = "upload_to_gcs" THEN result.raised
                 ELSE ~result.raised /\ result.value = "False"

(***************************************************************************)
(* The plan                                                                *)
(***************************************************************************)
\* the File ID cells of the planned updates of a file name, and its planned inserts
PlannedUpdates(file_name) ==
    {k \in DOMAIN cells_to_update :
        cells_to_update[k].col = ColFileID /\ cells_to_update[k].value = file_name}

PlannedInserts(file_name) ==
    {k \in DOMAIN rows_to_add : rows_to_add[k][ColFileID] = file_name}

\* C24: a file for which upload_to_gcs returned a URL has exactly one item in
\* the plan.  If its name is a File ID of the snapshot the item is an update of
\* the row that the snapshot gives for the name, with an empty Status cell, and
\* there is no insert; otherwise it is one inserted row with the name as File ID
\* and an empty Status, and there is no update.
C24_OnePlanItemPerFile ==
    \A i \in DOMAIN outcomes :
        outcomes[i] \in {"cached", "uploaded"} =>
            LET file_name == organized_files[i].name IN
            IF InFileMap(file_name)
            THEN /\ Cardinality(PlannedUpdates(file_name)) = 1
                 /\ PlannedInserts(file_name) = {}
                 /\ \A k \in PlannedUpdates(file_name) :
                       /\ cells_to_update[k].row = file_map[file_name].row_num
                       /\ \E j \in DOMAIN cells_to_update :
                             cells_to_update[j] = Cell(file_map[file_name].row_num, ColStatus, "")
            ELSE /\ Cardinality(PlannedInserts(file_name)) = 1
                 /\ PlannedUpdates(file_name) = {}
                 /\ \A k \in PlannedInserts(file_name) : rows_to_add[k][ColStatus] = ""

\* C24, its case: process_files is over and the plan of the run holds an update
\* of a file that has a row and an insert of a file that has none
C24_Witness ==
    /\ pc = "finalize"
    /\ \E i, j \in DOMAIN outcomes :
          /\ outcomes[i] \in {"cached", "uploaded"} /\ InFileMap(organized_files[i].name)
          /\ outcomes[j] \in {"cached", "uploaded"} /\ ~InFileMap(organized_files[j].name)

(***************************************************************************)
(* The dedup pass                                                          *)
(***************************************************************************)
\* the digest of the i-th candidate of the call, None if it cannot be read
CandidateHash(i) == get_file_hash(call.all_image_files[i], call.unreadable)

\* the candidate can be read and no earlier run has committed its digest
Fresh(i) ==
    /\ CandidateHash(i) # None
    /\ ~(/\ CandidateHash(i) \in DOMAIN call.cache.processed_files
         /\ ~call.cache.processed_files[CandidateHash(i)].pending)

FirstOfHash == {i \in DOMAIN call.all_image_files :
                  Fresh(i) /\ \A j \in 1..(i - 1) : CandidateHash(j) # CandidateHash(i)}

LaterOfHash == {i \in DOMAIN call.all_image_files :
                  Fresh(i) /\ \E j \in 1..(i - 1) : CandidateHash(j) = CandidateHash(i)}

\* C25: of the candidates of one digest that no earlier run committed, the dedup
\* pass passes on the first one, in the order of the candidates, and nothing
\* else; duplicate_count is the number of the later ones, so a candidate skipped
\* because its digest is committed, or because it cannot be read, is not counted.
C25_FirstOfEachHash ==
    Returned("dedup_pass") =>
        /\ Len(result.unique_files) = Cardinality(FirstOfHash)
        /\ \A i \in FirstOfHash :
              result.unique_files[Cardinality({j \in FirstOfHash : j <= i})]
                  = call.all_image_files[i]
        /\ result.duplicate_count = Cardinality(LaterOfHash)

\* C25, its case: a pass over two files of one digest and a file whose digest an
\* earlier run committed has passed on one file and counted one duplicate
C25_Witness ==
    /\ Returned("dedup_pass")
    /\ Len(call.all_image_files) = 3
    /\ Cardinality(LaterOfHash) = 1
    /\ \E i \in DOMAIN call.all_image_files : CandidateHash(i) # None /\ ~Fresh(i)
    /\ Len(result.unique_files) = 1
    /\ result.duplicate_count = 1

(***************************************************************************)
(* The eviction                                                            *)
(***************************************************************************)
\* the entries that lines 660-665 dropped
Dropped == DOMAIN call.processed_files \ DOMAIN result.evicted

\* C26: the eviction drops only success entries, it leaves the entries it keeps
\* as they were, and no success entry that it keeps is older than one that it
\* drops; and the cache saved after the clean-up holds at most cache_limit
\* success entries.
C26_OldestDroppedFirst ==
    Returned("clean_up") =>
        /\ \A k \in DOMAIN result.evicted : result.evicted[k] = call.processed_files[k]
        /\ \A d \in Dropped :
              /\ ~call.processed_files[d].pending
              /\ \A k \in DOMAIN result.evicted :
                    ~result.evicted[k].pending
                        => result.evicted[k].ts >= call.processed_files[d].ts
        /\ Cardinality({k \in DOMAIN result.saved : ~result.saved[k].pending}) <= cache_limit

\* C26, its case: the cache was above the ceiling, the eviction dropped entries and
\* kept a pending one, and this run had processed every digest
C26_Witness ==
    /\ Returned("clean_up")
    /\ Cardinality(Dropped) = 1
    /\ \E k \in DOMAIN result.evicted : result.evicted[k].pending
    /\ call.processed = DOMAIN call.processed_files
    /\ Cardinality(DOMAIN result.saved) = cache_limit

(***************************************************************************)
(* Hyphens and the New marker                                              *)
(***************************************************************************)
HasHyphen(value) == "-" \in Range(value)

\* the components of the name without a closing sequence number
StemComponents ==
    IF call.components[Len(call.components)] = TokSeq
    THEN SubSeq(call.components, 1, Len(call.components) - 1)
    ELSE call.components

\* C27: the client, the title, the subtitle and the tags that parse_filename
\* returns hold no hyphen, and base_name is the stem of the name without the
\* sequence number, hyphens included.
C27_HyphensRendered ==
    Returned("parse_filename") =>
        /\ ~HasHyphen(result.client)
        /\ ~HasHyphen(result.title)
        /\ ~HasHyphen(result.subtitle)
        /\ \A i \in DOMAIN result.tags : ~HasHyphen(result.tags[i])
        /\ result.base_name = join(StemComponents, "_")

\* the rows that the snapshot of this run saw with Status 'New'
SeenNew == {new_to_empty_cells[k].row - 1 : k \in DOMAIN new_to_empty_cells}

\* C28: when update_spreadsheet starts or has run, no row that the snapshot of
\* the run saw with Status 'New' still has it.
C28_NewResetBeforePlan ==
    pc \in {"update_cells", "append_rows", "count_rows", "thumbnails"} =>
        \A r \in SeenNew : remote[r][ColStatus] # "New"

\* C30: no two rows of the sheet have the same File ID.
C30_OneRowPerFileID ==
    \A i, j \in DOMAIN remote :
        (i # j /\ remote[i][ColFileID] # "") => remote[i][ColFileID] # remote[j][ColFileID]

ScanDone == pc = "process" /\ idx = 1 /\ outcomes = <<>>

\* C31: a file that the dedup pass of a run skips because the cache holds a
\* timestamp for its digest has a row in the sheet, or a file of the same
\* content has one.
C31_ProcessedMeansWritten ==
    ScanDone =>
        \A n \in Names :
            IsProcessed(cache, disk[n])
                => \E m \in Names : disk[m] = disk[n] /\ InSheet(m)
====
